---- MODULE Spec2Model ----
(***************************************************************************)
(* bip39-sss: Shamir's secret sharing of a BIP39 seed phrase.              *)
(*                                                                         *)
(*   src/src/utils.py         field arithmetic, interpolation,             *)
(*                            make_random_shares, recover_seed             *)
(*   src/src/make_shares.py   the generation program and its               *)
(*                            self-verification of the shares              *)
(*   src/src/test_primes.py   the check that PRIMES are the biggest primes *)
(*                            under 2^strength                             *)
(*                                                                         *)
(* Scaling.  The code works on entropies of 128..256 bits.  The model      *)
(* keeps the code's strengths (128..256) and word counts (12..24) and      *)
(* gives an entropy of strength s the width EntropyBits(s) = s/32 - 1      *)
(* bits (3..7 bits).  PRIMES[s] is, as in the code, the biggest prime      *)
(* under 2^width.  The limit of 100 tested permutations is scaled to       *)
(* MaxTested for the same reason.  Python integers are unbounded; every    *)
(* value the model computes stays far below 2^31.                          *)
(*                                                                         *)
(* A seed phrase is modelled by what the program reads from it: its        *)
(* number of words and the entropy the Mnemonic codec decodes from it.     *)
(* The codec (package mnemonic) is not part of the repository; the model   *)
(* covers phrases whose words and checksum are valid.                      *)
(***************************************************************************)
EXTENDS Integers, Sequences, FiniteSets

VARIABLES
    pc,                   \* make_shares.py: position in the program
    args,                 \* make_shares.py: the parsed command line
    seed,                 \* make_shares.py: the main seed phrase
    seed_strength,        \* make_shares.py: strength of the main seed
    share_strength,       \* make_shares.py: strength of the shares
    shares,               \* make_shares.py: result of make_random_shares
    seen,                 \* permutations_generator: tuples already yielded
    permutations_to_test, \* make_shares.py: the groups to verify
    checked,              \* make_shares.py: outcome of recover_seed per group
    printed,              \* make_shares.py: lines written to the terminal
    raised,               \* make_shares.py: the exception that ended the run
    made,                 \* a call of make_random_shares and its outcome
    rec,                  \* a call of recover_seed and its outcome
    fcall                 \* a call of a field-arithmetic function

vars == <<pc, args, seed, seed_strength, share_strength, shares, seen,
          permutations_to_test, checked, printed, raised, made, rec,
          fcall>>

mainVars == <<pc, args, seed, seed_strength, share_strength, shares, seen,
              permutations_to_test, checked, printed, raised>>

(***************************************************************************)
(* Bounds of the model.                                                    *)
(***************************************************************************)
\* n_shares ranges over 0..MaxShares; make_random_shares is called with
\* minimum in 1..MaxShares + 1
MaxShares == 3
\* the limit of 100 tested permutations, scaled to the share counts above
MaxTested == 3
\* recover_seed is called on lists of 0..MaxGroup shares
MaxGroup == 2
\* with indices 1..MaxIndex
MaxIndex == 2
\* the field calls use the primes up to MaxTestPrime
MaxTestPrime == 7
\* interpolate through 2..MaxPoints points
MaxPoints == 3
\* at x-values up to MaxX
MaxX == 3

(***************************************************************************)
(* Outcomes of a call: a returned value or a raised exception.             *)
(***************************************************************************)
Ok(v) == [tag |-> "ok", val |-> v]

Raise(e) == [tag |-> "raise", val |-> e]

NoCall == [tag |-> "none", val |-> "none"]

(***************************************************************************)
(* utils.py: tables                                                        *)
(***************************************************************************)
STRENGTH_ALLOWED == {128, 160, 192, 224, 256}

LENGTH_ALLOWED == {12, 15, 18, 21, 24}

\* width, in the model, of an entropy of the given strength
EntropyBits(strength) == strength \div 32 - 1

\* test_primes.py: primality (decided there by Miller-Rabin)
IsPrime(n) == n > 1 /\ \A d \in 2..(n - 1) : n % d # 0

\* test_primes.py: prime is a prime and no i in prime+1 .. 2^bits-1 is one
BiggestPrimeUnder(n) ==
    CHOOSE q \in 2..(n - 1) :
        IsPrime(q) /\ \A i \in (q + 1)..(n - 1) : ~IsPrime(i)

PRIMES == [s \in STRENGTH_ALLOWED |-> BiggestPrimeUnder(2 ^ EntropyBits(s))]

(***************************************************************************)
(* Seed phrases and the codec boundary                                     *)
(***************************************************************************)
Phrase(n_words, entropy) == [words |-> n_words, entropy |-> entropy]

\* len(seed.split(" "))
WordCount(phrase) == phrase.words

\* utils.py int_to_seed: Ok(phrase), or the exception raised
int_to_seed(number, strength) ==
    IF strength \notin STRENGTH_ALLOWED
    THEN Raise("ValueError")
    ELSE IF number < 0 \/ number >= 2 ^ EntropyBits(strength)
         THEN Raise("OverflowError")
         ELSE Ok(Phrase((strength \div 32) * 3, number))

\* utils.py seed_to_int: the strength is validated and otherwise unused;
\* the phrase is decoded at its own length
seed_to_int(phrase, strength) ==
    IF strength \notin STRENGTH_ALLOWED
    THEN Raise("ValueError")
    ELSE IF WordCount(phrase) \notin LENGTH_ALLOWED
         THEN Raise("ValueError")
         ELSE Ok(phrase.entropy)

(***************************************************************************)
(* utils.py: field arithmetic                                              *)
(***************************************************************************)
RECURSIVE EvalLoop(_, _, _, _, _)
EvalLoop(poly, j, x, prime, accum) ==
    IF j = 0
    THEN accum
    ELSE EvalLoop(poly, j - 1, x, prime, (accum * x + poly[j]) % prime)

\* _eval_at with the loop starting one coefficient late: the coefficient of
\* the highest power is left out
EvalAtSkipsHighest(poly, x, prime) ==
    EvalLoop(poly, Len(poly) - 1, x, prime, 0)

\* utils.py _eval_at: Horner, from the last coefficient to the first
_eval_at(poly, x, prime) == EvalLoop(poly, Len(poly), x, prime, 0)

RECURSIVE GcdLoop(_, _, _, _, _, _)
GcdLoop(a, b, x, last_x, y, last_y) ==
    IF b = 0
    THEN <<last_x, last_y>>
    ELSE LET quot == a \div b
         IN  GcdLoop(b, a % b, last_x - quot * x, x, last_y - quot * y, y)

\* _extended_gcd with the start values of x and y exchanged
ExtendedGcdSwappedStart(a, b) == GcdLoop(a, b, 1, 0, 0, 1)

\* utils.py _extended_gcd
_extended_gcd(a, b) == GcdLoop(a, b, 0, 1, 1, 0)

\* _divmod taking the coefficient of p for the inverse of den
DivmodOtherCoefficient(num, den, p) == num * _extended_gcd(den, p)[2]

\* utils.py _divmod: num * inv, not reduced
_divmod(num, den, p) == num * _extended_gcd(den, p)[1]

RECURSIVE PI(_)
PI(vals) == IF vals = <<>> THEN 1 ELSE Head(vals) * PI(Tail(vals))

RECURSIVE Sum(_)
Sum(vals) == IF vals = <<>> THEN 0 ELSE Head(vals) + Sum(Tail(vals))

\* others = list(x_s); others.pop(i)
Others(x_s, i) == SubSeq(x_s, 1, i - 1) \o SubSeq(x_s, i + 1, Len(x_s))

\* the assert on distinct points left out
DistinctUnchecked(s) == TRUE

\* k == len(set(x_s))
Distinct(s) == Cardinality({s[i] : i \in 1..Len(s)}) = Len(s)

\* utils.py _lagrange_interpolate, lines 149-159: _divmod(num, den, p),
\* the value before it is brought into 0..p-1
LagrangeQuotient(x, x_s, y_s, p) ==
    LET k == Len(x_s)
        nums == [i \in 1..k |->
                    PI([j \in 1..(k - 1) |-> x - Others(x_s, i)[j]])]
        dens == [i \in 1..k |->
                    PI([j \in 1..(k - 1) |-> x_s[i] - Others(x_s, i)[j]])]
        den == PI(dens)
        num == Sum([i \in 1..k |->
                    _divmod((nums[i] * den * y_s[i]) % p, dens[i], p)])
    IN  _divmod(num, den, p)

\* _lagrange_interpolate returning the quotient as _divmod gives it
InterpolateUnnormalized(x, x_s, y_s, p) ==
    IF ~Distinct(x_s)
    THEN Raise("AssertionError")
    ELSE Ok(LagrangeQuotient(x, x_s, y_s, p))

\* utils.py _lagrange_interpolate: Ok(value), or the failed assert
_lagrange_interpolate(x, x_s, y_s, p) ==
    IF ~Distinct(x_s)
    THEN Raise("AssertionError")
    ELSE Ok((LagrangeQuotient(x, x_s, y_s, p) + p) % p)

(***************************************************************************)
(* utils.py: make_random_shares and recover_seed                           *)
(***************************************************************************)
\* the outcomes of [random_int(prime - 1) for i in range(minimum - 1)]:
\* randint(0, prime - 1) includes both ends
RandomCoefficients(minimum, prime) ==
    [1..(minimum - 1) -> 0..(prime - 1)]

\* the validation without the comparison of the two strengths
ValidateWithoutStrengthOrder(phrase, minimum, n_shares, strength) ==
    IF minimum > n_shares
    THEN "ValueError: more shares needed than created"
    ELSE IF WordCount(phrase) \notin LENGTH_ALLOWED
    THEN "ValueError: seed phrase length"
    ELSE IF strength \notin STRENGTH_ALLOWED
    THEN "ValueError: share strength not allowed"
    ELSE "ok"

\* utils.py make_random_shares, lines 78-99: the exception raised, or "ok"
ValidateShareRequest(phrase, minimum, n_shares, strength) ==
    IF minimum > n_shares
    THEN "ValueError: more shares needed than created"
    ELSE IF WordCount(phrase) \notin LENGTH_ALLOWED
    THEN "ValueError: seed phrase length"
    ELSE IF strength \notin STRENGTH_ALLOWED
    THEN "ValueError: share strength not allowed"
    ELSE IF strength < (WordCount(phrase) \div 3) * 32
    THEN "ValueError: share strength lower than seed strength"
    ELSE "ok"

\* utils.py make_random_shares, lines 101-102: the polynomial, given the
\* outcomes rnd of the random draws
Polynomial(phrase, rnd) == <<seed_to_int(phrase, 256).val>> \o rnd

\* utils.py make_random_shares, given the outcomes rnd of the random draws:
\* Ok(list of (index, phrase)), or the exception raised
make_random_shares(phrase, minimum, n_shares, strength, rnd) ==
    LET check == ValidateShareRequest(phrase, minimum, n_shares, strength)
    IN  IF check # "ok"
        THEN Raise(check)
        ELSE LET prime == PRIMES[strength]
                 poly == Polynomial(phrase, rnd)
                 points == [i \in 1..n_shares |-> _eval_at(poly, i, prime)]
                 coded == [i \in 1..n_shares |->
                              int_to_seed(points[i], strength)]
             IN  IF \E i \in 1..n_shares : coded[i].tag = "raise"
                 THEN Raise("OverflowError")
                 ELSE Ok([i \in 1..n_shares |-> <<i, coded[i].val>>])

\* utils.py recover_seed; prime = 0 stands for an omitted prime (None):
\* Ok(phrase), or the exception raised
recover_seed(shs, strength, prime) ==
    LET k == Len(shs)
        lens == {WordCount(shs[i][2]) : i \in 1..k}
    IN  IF k < 2
        THEN Raise("ValueError: need at least two shares")
        ELSE IF Cardinality(lens) # 1
        THEN Raise("ValueError: shares have different lengths")
        ELSE IF strength \notin STRENGTH_ALLOWED
        THEN Raise("ValueError: seed strength not allowed")
        ELSE IF prime = 0 /\ (WordCount(shs[1][2]) \div 3) * 32
                                 \notin DOMAIN PRIMES
        THEN Raise("KeyError")
        ELSE LET p == IF prime = 0
                      THEN PRIMES[(WordCount(shs[1][2]) \div 3) * 32]
                      ELSE prime
                 ints == [i \in 1..k |-> seed_to_int(shs[i][2], strength)]
             IN  IF \E i \in 1..k : ints[i].tag = "raise"
                 THEN Raise("ValueError: phrase not decodable")
                 ELSE LET x_s == [i \in 1..k |-> shs[i][1]]
                          y_s == [i \in 1..k |-> ints[i].val]
                          entropy == _lagrange_interpolate(0, x_s, y_s, p)
                      IN  IF entropy.tag = "raise"
                          THEN entropy
                          ELSE LET out == int_to_seed(entropy.val, strength)
                               IN  IF out.tag = "raise"
                                   THEN Raise("ValueError: failed to recover")
                                   ELSE out

(***************************************************************************)
(* Calls of the library: make_random_shares, then recover_seed on a group  *)
(* of the shares it returned.                                              *)
(***************************************************************************)
\* the entropies of the seeds tried: zero, the last field element, and the
\* first value that is no field element
SeedEntropies(strength) == {0, PRIMES[strength] - 1, PRIMES[strength]}

\* the seed phrases tried: 12-word phrases, a 15-word phrase and a phrase
\* of 9 words, which is no allowed length
SeedPhrases ==
    {Phrase(12, e) : e \in SeedEntropies(128)}
        \cup {Phrase(15, PRIMES[160] - 1), Phrase(9, 1)}

\* the share strengths tried: 100 is not allowed
ShareStrengths == {100, 128, 160}

\* the tuples of r distinct elements of the sequence s, in every order
TuplesOf(s, r) ==
    {t \in [1..r -> {s[i] : i \in 1..Len(s)}] :
        \A i, j \in 1..r : i # j => t[i] # t[j]}

idleMain ==
    /\ pc = "idle" /\ args = <<>> /\ seed = <<>> /\ seed_strength = 0
    /\ share_strength = 0 /\ shares = NoCall /\ seen = {}
    /\ permutations_to_test = {} /\ checked = <<>> /\ printed = <<>>
    /\ raised = "none"

InitShares == idleMain /\ made = NoCall /\ rec = NoCall /\ fcall = NoCall

CallMakeRandomShares ==
    /\ made = NoCall
    /\ \E phrase \in SeedPhrases, minimum \in 1..(MaxShares + 1),
          n_shares \in 0..MaxShares, strength \in ShareStrengths :
          LET check == ValidateShareRequest(phrase, minimum, n_shares,
                                            strength)
          IN  \E rnd \in IF check = "ok"
                         THEN RandomCoefficients(minimum, PRIMES[strength])
                         ELSE {<<>>} :
                made' = [seed |-> phrase, minimum |-> minimum,
                         n_shares |-> n_shares, share_strength |-> strength,
                         poly |-> IF check = "ok"
                                  THEN Polynomial(phrase, rnd) ELSE <<>>,
                         tag |-> "called",
                         ret |-> make_random_shares(phrase, minimum, n_shares,
                                                    strength, rnd)]
    /\ UNCHANGED <<mainVars, rec, fcall>>

\* recover_seed(group, seed_strength, PRIMES[share_strength]) on a group of
\* minimum or minimum - 1 of the shares returned, in any order
CallRecoverSeedOnShares ==
    /\ made # NoCall /\ made.ret.tag = "ok" /\ rec = NoCall
    /\ \E r \in {made.minimum - 1, made.minimum} \cap (0..made.n_shares) :
          \E group \in TuplesOf(made.ret.val, r) :
             LET strength == (WordCount(made.seed) \div 3) * 32
                 prime == PRIMES[made.share_strength]
             IN  rec' = [shares |-> group, seed_strength |-> strength,
                         prime |-> prime, tag |-> "called",
                         ret |-> recover_seed(group, strength, prime)]
    /\ UNCHANGED <<mainVars, made, fcall>>

NextShares == CallMakeRandomShares \/ CallRecoverSeedOnShares

SpecShares == InitShares /\ [][NextShares]_vars

(***************************************************************************)
(* Calls of the function recover_seed of utils.py by any caller, with any  *)
(* list of shares, seed strength and prime, the prime omitted or given.    *)
(* The program recover_seed.py is one such caller; it stops before the     *)
(* call when no share, a strength that is not allowed or a phrase of a     *)
(* length that is not allowed is typed in, so it makes a part of these     *)
(* calls only.                                                             *)
(***************************************************************************)
\* the share phrases passed: 12 words, 15 words, and 9 words
SharePhrases ==
    {Phrase(12, e) : e \in {0, 1, 6, 7}}
        \cup {Phrase(15, e) : e \in {1, 13}} \cup {Phrase(9, 1)}

\* the lists of n shares (index, phrase)
ShareLists(n) == [1..n -> (1..MaxIndex) \X SharePhrases]

\* the seed strengths passed: 100 is not allowed
SeedStrengths == {100, 128, 160}

\* the primes passed: 0 for prime=None
PrimesGiven == {0, PRIMES[128], PRIMES[160]}

InitRecover == idleMain /\ made = NoCall /\ rec = NoCall /\ fcall = NoCall

CallRecoverSeed ==
    /\ rec = NoCall
    /\ \E n \in 0..MaxGroup :
          \E shs \in ShareLists(n), strength \in SeedStrengths,
             prime \in PrimesGiven :
             rec' = [shares |-> shs, seed_strength |-> strength,
                     prime |-> prime, tag |-> "called",
                     ret |-> recover_seed(shs, strength, prime)]
    /\ UNCHANGED <<mainVars, made, fcall>>

NextRecover == CallRecoverSeed

SpecRecover == InitRecover /\ [][NextRecover]_vars

(***************************************************************************)
(* Calls of the field arithmetic                                           *)
(***************************************************************************)
TestPrimes == {p \in 2..MaxTestPrime : IsPrime(p)}

InitField == idleMain /\ made = NoCall /\ rec = NoCall /\ fcall = NoCall

\* _divmod(num, den, p) for a prime p, num in [0, p) and 0 < den < p
CallDivmod ==
    /\ fcall = NoCall
    /\ \E p \in TestPrimes :
          \E num \in 0..(p - 1), den \in 1..(p - 1) :
             fcall' = [tag |-> "_divmod", p |-> p, num |-> num, den |-> den,
                       ret |-> _divmod(num, den, p)]
    /\ UNCHANGED <<mainVars, made, rec>>

\* the points of a polynomial with k coefficients in [0, p), computed by
\* _eval_at at k distinct x-values in [1, p), then interpolated at 0
CallInterpolate ==
    /\ fcall = NoCall
    /\ \E p \in TestPrimes, k \in 2..MaxPoints :
          \E poly \in [1..k -> 0..(p - 1)] :
             \E x_s \in {t \in [1..k -> 1..(IF p - 1 < MaxX THEN p - 1
                                                         ELSE MaxX)] :
                            Distinct(t)} :
                LET y_s == [i \in 1..k |-> _eval_at(poly, x_s[i], p)]
                IN  fcall' = [tag |-> "_lagrange_interpolate", p |-> p,
                              poly |-> poly, x_s |-> x_s, y_s |-> y_s,
                              ret |-> _lagrange_interpolate(0, x_s, y_s, p)]
    /\ UNCHANGED <<mainVars, made, rec>>

NextField == CallDivmod \/ CallInterpolate

SpecField == InitField /\ [][NextField]_vars

(***************************************************************************)
(* make_shares.py: the generation program                                  *)
(***************************************************************************)
\* default of --minimum
DefaultMinimum == 2

\* no --seed_phrase given
NoSeed == Phrase(0, 0)

RECURSIVE ProductRange(_, _)
ProductRange(lo, hi) == IF lo > hi THEN 1 ELSE lo * ProductRange(lo + 1, hi)

\* make_shares.py len_permutations, called with r given
len_permutations(pool, r) ==
    LET n == Len(pool)
    IN  IF r > n THEN 0 ELSE ProductRange(n - r + 1, n)

\* the assert left out: only an exception of recover_seed ends the run
VerifyOutcomeWithoutAssert(results, phrase) ==
    IF \E g \in DOMAIN results : results[g].tag = "raise"
    THEN results[CHOOSE g \in DOMAIN results : results[g].tag = "raise"].val
    ELSE "ok"

\* make_shares.py line 152-155: the assert over the outcomes of recover_seed
\* on the tested groups: the exception that ends the run, or "ok"
VerifyOutcome(results, phrase) ==
    IF \E g \in DOMAIN results : results[g].tag = "raise"
    THEN results[CHOOSE g \in DOMAIN results : results[g].tag = "raise"].val
    ELSE IF \A g \in DOMAIN results : results[g].val = phrase
         THEN "ok"
         ELSE "AssertionError"

\* the command lines tried: -g alone, or -s with any --share_strength;
\* 0 stands for an option left out; the strength 100 and the 9-word phrase
\* are not allowed
CommandLines ==
    {a \in [generate_seed : {0, 100, 128},
            seed_phrase : {NoSeed, Phrase(12, 1), Phrase(12, PRIMES[128]),
                           Phrase(15, 1), Phrase(9, 1)},
            minimum : 0..DefaultMinimum,
            n_shares : 0..MaxShares,
            share_strength : {0, 100, 128, 160}] :
        a.generate_seed # 0 =>
            (a.seed_phrase = NoSeed /\ a.share_strength = 0)}

Init ==
    /\ pc = "start" /\ args \in CommandLines
    /\ seed = NoSeed /\ seed_strength = 0 /\ share_strength = 0
    /\ shares = NoCall /\ seen = {} /\ permutations_to_test = {}
    /\ checked = <<>> /\ printed = <<>> /\ raised = "none"
    /\ made = NoCall /\ rec = NoCall /\ fcall = NoCall

Abort(e) ==
    /\ pc' = "raised" /\ raised' = e
    /\ UNCHANGED <<args, seen, permutations_to_test, printed, made, rec,
                   fcall>>

\* lines 91-108: the seed is generated, or taken from the command line
ChooseSeed ==
    /\ pc = "start"
    /\ IF args.generate_seed # 0
       THEN /\ seed_strength' = args.generate_seed
            /\ IF seed_strength' \in STRENGTH_ALLOWED
               THEN /\ \E e \in 0..(2 ^ EntropyBits(seed_strength') - 1) :
                          seed' = Phrase((seed_strength' \div 32) * 3, e)
                    /\ pc' = "have_seed"
                    /\ UNCHANGED <<args, seen, permutations_to_test, printed,
                                   raised, made, rec, fcall>>
               ELSE Abort("ValueError: seed strength") /\ UNCHANGED seed
       ELSE /\ UNCHANGED seed_strength
            /\ IF args.seed_phrase # NoSeed
               THEN /\ seed' = args.seed_phrase
                    /\ pc' = "have_seed"
                    /\ UNCHANGED <<args, seen, permutations_to_test, printed,
                                   raised, made, rec, fcall>>
               ELSE Abort("ValueError: no seed") /\ UNCHANGED seed
    /\ UNCHANGED <<share_strength, shares, checked>>

\* lines 110-140: the strengths of the seed and of the shares
ResolveStrengths ==
    /\ pc = "have_seed"
    /\ LET len_seed == WordCount(seed)
           strength == (len_seed \div 3) * 32
           wanted == IF args.share_strength = 0
                     THEN strength ELSE args.share_strength
       IN  IF len_seed \notin LENGTH_ALLOWED
           THEN /\ Abort("ValueError: number of words")
                /\ UNCHANGED <<seed_strength, share_strength>>
           ELSE IF wanted \notin STRENGTH_ALLOWED
           THEN /\ Abort("ValueError: share strength not allowed")
                /\ seed_strength' = strength
                /\ share_strength' = wanted
           ELSE IF wanted < strength
           THEN /\ Abort("ValueError: share strength lower than seed strength")
                /\ seed_strength' = strength
                /\ share_strength' = wanted
           ELSE /\ seed_strength' = strength
                /\ share_strength' = wanted
                /\ pc' = "ready"
                /\ UNCHANGED <<args, seen, permutations_to_test, printed,
                               raised, made, rec, fcall>>
    /\ UNCHANGED <<seed, shares, checked>>

\* line 142: make_random_shares with its random draws
MakeShares ==
    /\ pc = "ready"
    /\ \E rnd \in IF args.minimum > args.n_shares
                  THEN {<<>>}
                  ELSE RandomCoefficients(args.minimum, PRIMES[share_strength]) :
          LET out == make_random_shares(seed, args.minimum, args.n_shares,
                                        share_strength, rnd)
          IN  /\ shares' = out
              /\ IF out.tag = "raise"
                 THEN Abort(out.val)
                 ELSE /\ pc' = "made"
                      /\ UNCHANGED <<args, seen, permutations_to_test,
                                     printed, raised, made, rec, fcall>>
    /\ UNCHANGED <<seed, seed_strength, share_strength, checked>>

\* lines 149-150: every permutation of minimum shares is to be tested
SelectAll ==
    /\ pc = "made"
    /\ len_permutations(shares.val, args.minimum) <= MaxTested
    /\ permutations_to_test' = TuplesOf(shares.val, args.minimum)
    /\ pc' = "selected"
    /\ UNCHANGED <<args, seed, seed_strength, share_strength, shares, seen,
                   checked, printed, raised, made, rec, fcall>>

\* lines 146-147: the generator of random permutations is created
StartSampling ==
    /\ pc = "made"
    /\ len_permutations(shares.val, args.minimum) > MaxTested
    /\ seen' = {}
    /\ pc' = "sampling"
    /\ UNCHANGED <<args, seed, seed_strength, share_strength, shares,
                   permutations_to_test, checked, printed, raised, made, rec,
                   fcall>>

\* line 148 and permutations_generator: the next permutation that was not
\* drawn before is yielded (a draw of one that was changes nothing), until
\* the list holds the limit
SampleNext ==
    /\ pc = "sampling"
    /\ \E permutation \in TuplesOf(shares.val, args.minimum) :
          /\ permutation \notin seen
          /\ seen' = seen \cup {permutation}
          /\ permutations_to_test' = permutations_to_test \cup {permutation}
    /\ pc' = IF Cardinality(permutations_to_test') = MaxTested
             THEN "selected" ELSE "sampling"
    /\ UNCHANGED <<args, seed, seed_strength, share_strength, shares, checked,
                   printed, raised, made, rec, fcall>>

\* lines 152-155: recover_seed on every group to test, and the assert
Verify ==
    /\ pc = "selected"
    /\ LET results == [g \in permutations_to_test |->
                          recover_seed(g, seed_strength,
                                       PRIMES[share_strength])]
           outcome == VerifyOutcome(results, seed)
       IN  /\ checked' = results
           /\ IF outcome = "ok"
              THEN /\ pc' = "verified"
                   /\ UNCHANGED <<args, seen, permutations_to_test, printed,
                                  raised, made, rec, fcall>>
              ELSE Abort(outcome)
    /\ UNCHANGED <<seed, seed_strength, share_strength, shares>>

\* lines 157-167: the main seed and the shares are printed, then the
\* number of shares created and needed, the prime used (PRIMES_STR of the
\* share strength) and the reminder, with a blank line before each of the
\* last two parts
PrintShares ==
    /\ pc = "verified"
    /\ printed' = <<<<"MAIN SEED", 0, seed>>>>
                     \o [i \in 1..Len(shares.val) |->
                            <<"SHARE", shares.val[i][1], shares.val[i][2]>>]
                     \o <<<<"", 0, 0>>,
                          <<"SHARES CREATED", args.n_shares, args.minimum>>,
                          <<"PRIME NUMBER USED", share_strength,
                            PRIMES[share_strength]>>,
                          <<"", 0, 0>>,
                          <<"WRITE DOWN", 0, 0>>>>
    /\ pc' = "done"
    /\ UNCHANGED <<args, seed, seed_strength, share_strength, shares, seen,
                   permutations_to_test, checked, raised, made, rec, fcall>>

Next ==
    \/ ChooseSeed
    \/ ResolveStrengths
    \/ MakeShares
    \/ SelectAll
    \/ StartSampling
    \/ SampleNext
    \/ Verify
    \/ PrintShares

Spec == Init /\ [][Next]_vars

(***************************************************************************)
(* Properties                                                              *)
(***************************************************************************)
Range(t) == {t[i] : i \in DOMAIN t}

\* the share strength asks for a prime: the prime given, or the one of the
\* table for the length of the first share
PrimeUsed(call) ==
    IF call.prime = 0
    THEN PRIMES[(WordCount(call.shares[1][2]) \div 3) * 32]
    ELSE call.prime

\* C1 (as claimed): recover_seed on any `minimum` of the shares returned by
\* make_random_shares, in any order, with the seed's strength and the prime
\* of the share strength, returns the original seed phrase.
RoundTrip ==
    (rec.tag = "called" /\ made.minimum >= 1
        /\ Len(rec.shares) = made.minimum)
    => (rec.ret.tag = "ok" /\ rec.ret.val = made.seed)

\* C2 (as claimed): recover_seed on any minimum - 1 of the shares never
\* returns the original seed phrase.
ThresholdNeverRecovers ==
    (rec.tag = "called" /\ Len(rec.shares) = made.minimum - 1)
    => ~(rec.ret.tag = "ok" /\ rec.ret.val = made.seed)

\* C2 (amended): recover_seed on minimum - 1 of the shares returns the
\* original seed phrase exactly when minimum >= 3, the random coefficient of
\* the highest power is 0 and the secret is below the prime; with a non-zero
\* highest coefficient it never returns the original seed phrase.
ThresholdUnlessHighestIsZero ==
    (rec.tag = "called" /\ Len(rec.shares) = made.minimum - 1)
    => ((rec.ret.tag = "ok" /\ rec.ret.val = made.seed)
        <=> (/\ made.minimum >= 3
             /\ made.poly[made.minimum] = 0
             /\ made.poly[1] < PRIMES[made.share_strength]))

\* two of the shares of a 3-share threshold with a non-zero highest
\* coefficient give a phrase, and it is not the seed
TwoOfThreeGiveAnotherPhrase ==
    /\ rec.tag = "called" /\ made.minimum = 3 /\ Len(rec.shares) = 2
    /\ made.poly[3] # 0
    /\ rec.ret.tag = "ok" /\ rec.ret.val # made.seed

\* C5: make_random_shares raises when minimum > n_shares, the seed's word
\* count is not allowed, the share strength is not allowed or is below the
\* seed strength; otherwise it returns n_shares shares with the indices
\* 1..n_shares, each phrase of share_strength/32*3 words.
ConfigurationValidation ==
    made.tag = "called" =>
        IF \/ made.minimum > made.n_shares
           \/ WordCount(made.seed) \notin {12, 15, 18, 21, 24}
           \/ made.share_strength \notin {128, 160, 192, 224, 256}
           \/ made.share_strength < (WordCount(made.seed) \div 3) * 32
        THEN made.ret.tag = "raise"
        ELSE /\ made.ret.tag = "ok"
             /\ Len(made.ret.val) = made.n_shares
             /\ \A i \in 1..made.n_shares :
                   /\ made.ret.val[i][1] = i
                   /\ WordCount(made.ret.val[i][2])
                          = (made.share_strength \div 32) * 3

\* three 15-word shares are returned for a 12-word seed
SharesReturned ==
    /\ made.tag = "called" /\ made.ret.tag = "ok"
    /\ made.n_shares = 3 /\ made.minimum = 2
    /\ WordCount(made.seed) = 12 /\ made.share_strength = 160

\* C8 (as claimed): in a call of make_random_shares that passes validation
\* the polynomial has `minimum` coefficients, each in [0, prime).
PolynomialInField ==
    (made.tag = "called" /\ made.ret.tag = "ok")
    => /\ Len(made.poly) = made.minimum
       /\ \A i \in 1..Len(made.poly) :
             made.poly[i] \in 0..(PRIMES[made.share_strength] - 1)

\* C6: recover_seed raises when fewer than 2 shares are supplied, when the
\* phrases differ in word count, and when two shares carry the same index.
RecoveryValidation ==
    (/\ rec.tag = "called"
     /\ \/ Len(rec.shares) < 2
        \/ \E i, j \in 1..Len(rec.shares) :
              WordCount(rec.shares[i][2]) # WordCount(rec.shares[j][2])
        \/ \E i, j \in 1..Len(rec.shares) :
              i # j /\ rec.shares[i][1] = rec.shares[j][1])
    => rec.ret.tag = "raise"

\* two shares of one length and one index, with an allowed strength: the
\* assert on distinct points is what raises
SameIndexRejected ==
    /\ rec.tag = "called" /\ Len(rec.shares) = 2
    /\ rec.shares[1][1] = rec.shares[2][1]
    /\ WordCount(rec.shares[1][2]) = 12 /\ WordCount(rec.shares[2][2]) = 12
    /\ rec.shares[1][2] # rec.shares[2][2]
    /\ rec.seed_strength = 128
    /\ rec.ret = Raise("AssertionError")

\* C10: with at least 2 decodable shares of one length and distinct indices
\* and an allowed seed strength, recover_seed returns a phrase whenever the
\* prime used is at most 2^seed_strength; the error 'Failed to recover seed
\* phrase' is raised only with a prime above 2^seed_strength.
NoOverflowWithinSeedStrength ==
    /\ (/\ rec.tag = "called" /\ Len(rec.shares) >= 2
        /\ rec.seed_strength \in STRENGTH_ALLOWED
        /\ \A i \in 1..Len(rec.shares) :
              /\ WordCount(rec.shares[i][2]) \in LENGTH_ALLOWED
              /\ WordCount(rec.shares[i][2]) = WordCount(rec.shares[1][2])
        /\ \A i, j \in 1..Len(rec.shares) :
              i # j => rec.shares[i][1] # rec.shares[j][1]
        /\ PrimeUsed(rec) <= 2 ^ EntropyBits(rec.seed_strength))
       => rec.ret.tag = "ok"
    /\ (rec.tag = "called"
        /\ rec.ret = Raise("ValueError: failed to recover"))
       => PrimeUsed(rec) > 2 ^ EntropyBits(rec.seed_strength)

\* two 12-word shares, seed strength 128 and the prime left out: a phrase
\* is returned whatever the shares are
PhraseReturnedForAnyShares ==
    /\ rec.tag = "called" /\ Len(rec.shares) = 2
    /\ rec.prime = 0 /\ rec.seed_strength = 128
    /\ WordCount(rec.shares[1][2]) = 12
    /\ rec.shares[1][2].entropy = PRIMES[128]
    /\ rec.ret.tag = "ok"

\* C7: interpolating at 0 the points computed by _eval_at for a polynomial
\* with k >= 2 coefficients in [0, p) at k distinct x-values in [1, p)
\* returns the coefficient of x^0, an integer in [0, p).
InterpolationCorrect ==
    fcall.tag = "_lagrange_interpolate"
    => /\ fcall.ret.tag = "ok"
       /\ fcall.ret.val = fcall.poly[1]
       /\ fcall.ret.val \in 0..(fcall.p - 1)

\* three points of a polynomial of degree 2 over the field of 7 elements
ThreePointsInterpolated ==
    /\ fcall.tag = "_lagrange_interpolate" /\ fcall.p = 7
    /\ Len(fcall.x_s) = 3 /\ fcall.poly[3] # 0 /\ fcall.poly[1] = 5
    /\ fcall.x_s = <<3, 1, 2>>
    /\ fcall.ret = Ok(5)

\* C9 (as claimed): _divmod(num, den, p) returns the r in [0, p) with
\* den * r mod p = num.
DivmodNormalized ==
    fcall.tag = "_divmod"
    => /\ fcall.ret \in 0..(fcall.p - 1)
       /\ (fcall.den * fcall.ret) % fcall.p = fcall.num

\* C9 (amended): _divmod(num, den, p) returns an integer r, which may be
\* negative, with den * r mod p = num; r mod p is the only such value in
\* [0, p).
DivmodCongruent ==
    fcall.tag = "_divmod"
    => /\ (fcall.den * fcall.ret) % fcall.p = fcall.num
       /\ \A r \in 0..(fcall.p - 1) :
             (fcall.den * r) % fcall.p = fcall.num
                 <=> r = fcall.ret % fcall.p

\* _divmod(1, 2, 7) returns -3
DivmodReturnsNegative ==
    /\ fcall.tag = "_divmod" /\ fcall.p = 7 /\ fcall.num = 1 /\ fcall.den = 2
    /\ fcall.ret = -3

\* C3: the seed and the shares are printed only after recover_seed returned
\* the seed for every group tested; when recover_seed raises or returns
\* another phrase for a group, the run has ended with an exception and
\* nothing is printed.
SelfVerificationGate ==
    /\ printed # <<>> =>
          /\ pc = "done"
          /\ permutations_to_test # {}
          /\ DOMAIN checked = permutations_to_test
          /\ \A g \in permutations_to_test :
                checked[g].tag = "ok" /\ checked[g].val = seed
    /\ (\E g \in DOMAIN checked :
           checked[g].tag = "raise" \/ checked[g].val # seed)
       => (pc = "raised" /\ printed = <<>>)
    /\ pc = "raised" => printed = <<>>

\* the seed and three shares are printed, and the five closing lines after
\* them, after three sampled groups passed
SharesPrinted ==
    /\ pc = "done" /\ Len(shares.val) = 3 /\ Len(printed) = 9
    /\ printed[1][1] = "MAIN SEED" /\ printed[4][1] = "SHARE"
    /\ printed[9][1] = "WRITE DOWN"
    /\ Cardinality(DOMAIN checked) = 3
    /\ args.minimum = 2

\* C4 (as claimed): when the number of minimum-sized subsets of the shares
\* is at most the limit, every such subset is tested; otherwise as many
\* pairwise distinct subsets as the limit are tested.
VerifierCoverage ==
    pc = "selected" =>
        LET subsets == {g \in SUBSET Range(shares.val) :
                           Cardinality(g) = args.minimum}
            tested == {Range(g) : g \in permutations_to_test}
        IN  IF Cardinality(subsets) <= MaxTested
            THEN tested = subsets
            ELSE Cardinality(tested) = MaxTested

====
